---- MODULE Spec2Model ----
(***************************************************************************)
(* Bookkeeping Automation API: the /match reconciliation handler of        *)
(* main.py together with the two record-creating handlers it depends on.   *)
(*                                                                         *)
(* Representation                                                          *)
(*   - a stored document is a record whose DOMAIN is the set of keys the   *)
(*     document has; dict.get(key, default) is Get(doc, key, default);     *)
(*   - money is an integer number of thousandths (1004 is 1.004), a value  *)
(*     rounded to 2 decimals is an integer number of hundredths;           *)
(*   - scores are thousandths as well (0.6 is 600, 0.4 is 400, -1.0 is     *)
(*     -1000), a confidence is a number of hundredths (1.0 is 100);        *)
(*   - a calendar day is an integer day number;                            *)
(*   - a Python value is tagged with its type: PyNone, a str holding an    *)
(*     ISO date or something else, a datetime, an int.                     *)
(***************************************************************************)
EXTENDS Integers, Sequences, FiniteSets, TLC

VARIABLES
    invoice,          \* the "invoice" collection, in insertion order
    banktransaction,  \* the "banktransaction" collection, in insertion order
    match,            \* the "match" collection, in insertion order
    response,         \* the response the last request got
    fault,            \* which database call of the last request raised (0: none)
    calls             \* number of /match requests served

vars == <<invoice, banktransaction, match, response, fault, calls>>

----------------------------------------------------------------------------
(* Bounds of the model *)

MaxInv == 2

MaxTxn == 2

MaxCalls == 2

(* Program constants *)

InvoiceLimit == 500

TxnLimit == 1000

BaseScore == 600

DateBonus == 400

DateWindow == 7

----------------------------------------------------------------------------
(* Python values *)

PyNone == [type |-> "NoneType"]

IsoStr(d) == [type |-> "str", iso |-> TRUE, day |-> d]

BadStr == [type |-> "str", iso |-> FALSE]

DateTime(d) == [type |-> "datetime", day |-> d]

PyInt == [type |-> "int"]

\* dict.get(key, default)
Get(doc, key, default) == IF key \in DOMAIN doc THEN doc[key] ELSE default

\* truth value of a date field: None is false, every other value used here is true
Truthy(v) == v # PyNone

\* datetime.fromisoformat inside try/except: the parsed datetime, or None
FromIsoOrNone(s) == IF s.iso THEN DateTime(s.day) ELSE PyNone

\* the date field after the isinstance(..., str) block
ParseDate(v) == IF v.type = "str" THEN FromIsoOrNone(v) ELSE v

\* whether v.date() exists
HasDateMethod(v) == v.type = "datetime"

Abs(n) == IF n < 0 THEN -n ELSE n

\* round(x, 2) of x thousandths, in hundredths; an exact half goes to the even
\* neighbour
Round2(m) ==
    LET a == Abs(m)
        q == a \div 10
        r == a % 10
        up == IF r > 5 \/ (r = 5 /\ q % 2 = 1) THEN q + 1 ELSE q
    IN  IF m < 0 THEN -up ELSE up

\* round(x, 2) of a score in thousandths
RoundScore(s) == Round2(s)

\* str(ObjectId)
Str(id) == ToString(id)

----------------------------------------------------------------------------
(* The record store (database module) *)

\* get_documents(collection, {}, limit): the first `limit` documents
get_documents(coll, limit) ==
    SubSeq(coll, 1, IF Len(coll) < limit THEN Len(coll) ELSE limit)

\* create_document(collection, data): stores data under a fresh _id
create_document(coll, data) == Append(coll, data @@ ("_id" :> Len(coll) + 1))

----------------------------------------------------------------------------
(* match_invoices_to_bank: the scoring *)

AmountKey(t) == Round2(Get(t, "amount", 0))

\* txns_by_amount[key].append(t)
BucketAppend(by, key, t) ==
    IF key \in DOMAIN by
    THEN [by EXCEPT ![key] = Append(@, t)]
    ELSE by @@ (key :> <<t>>)

\* the loop that fills txns_by_amount from the first n transactions
RECURSIVE GroupByAmount(_, _)
GroupByAmount(txns, n) ==
    IF n = 0 THEN <<>>
    ELSE BucketAppend(GroupByAmount(txns, n - 1), AmountKey(txns[n]), txns[n])

\* Candidates with a lookup that ignores the invoice total: the bucket of the
\* smallest key
CandidatesWrongKey(by, inv_total) ==
    IF DOMAIN by = {} THEN <<>>
    ELSE by[CHOOSE k \in DOMAIN by : \A k2 \in DOMAIN by : k <= k2]

\* txns_by_amount.get(inv_total, [])
Candidates(by, inv_total) == IF inv_total \in DOMAIN by THEN by[inv_total] ELSE <<>>

ReasonWithin(days) == "Amount matches and dates within " \o ToString(days) \o " days"

ReasonApart(days) == "Amount matches but dates " \o ToString(days) \o " days apart"

ReasonAmount == "Amount matches"

\* ScoreCandidate with the window test days < 7
ScoreCandidateStrictWindow(inv_date, t) ==
    LET t_date == ParseDate(Get(t, "date", PyNone))
    IN  IF Truthy(inv_date) /\ Truthy(t_date)
        THEN IF ~(HasDateMethod(t_date) /\ HasDateMethod(inv_date))
             THEN [raised |-> TRUE, score |-> BaseScore, reason |-> PyNone]
             ELSE LET days == Abs(t_date.day - inv_date.day)
                  IN  IF days < DateWindow
                      THEN [raised |-> FALSE, score |-> BaseScore + DateBonus,
                            reason |-> ReasonWithin(days)]
                      ELSE [raised |-> FALSE, score |-> BaseScore,
                            reason |-> ReasonApart(days)]
        ELSE [raised |-> FALSE, score |-> BaseScore, reason |-> ReasonAmount]

\* one pass of the candidate loop's body up to the comparison with best_score:
\* the score and reason of candidate t, or the exception of .date()
ScoreCandidate(inv_date, t) ==
    LET t_date == ParseDate(Get(t, "date", PyNone))
    IN  IF Truthy(inv_date) /\ Truthy(t_date)
        THEN IF ~(HasDateMethod(t_date) /\ HasDateMethod(inv_date))
             THEN [raised |-> TRUE, score |-> BaseScore, reason |-> PyNone]
             ELSE LET days == Abs(t_date.day - inv_date.day)
                  IN  IF days <= DateWindow
                      THEN [raised |-> FALSE, score |-> BaseScore + DateBonus,
                            reason |-> ReasonWithin(days)]
                      ELSE [raised |-> FALSE, score |-> BaseScore,
                            reason |-> ReasonApart(days)]
        ELSE [raised |-> FALSE, score |-> BaseScore, reason |-> ReasonAmount]

\* CandidateLoop with the comparison score >= best_score: the last of the best wins
RECURSIVE CandidateLoopLastWins(_, _, _)
CandidateLoopLastWins(inv_date, cands, n) ==
    IF n = 0
    THEN [raised |-> FALSE, best |-> PyNone, best_score |-> -1000, reason |-> PyNone]
    ELSE LET st == CandidateLoopLastWins(inv_date, cands, n - 1)
             sc == ScoreCandidate(inv_date, cands[n])
         IN  IF st.raised THEN st
             ELSE IF sc.raised THEN [st EXCEPT !.raised = TRUE]
             ELSE IF sc.score >= st.best_score
                  THEN [raised |-> FALSE, best |-> cands[n],
                        best_score |-> sc.score, reason |-> sc.reason]
                  ELSE [st EXCEPT !.reason = sc.reason]

\* the candidate loop over the first n candidates: best, best_score and reason
RECURSIVE CandidateLoop(_, _, _)
CandidateLoop(inv_date, cands, n) ==
    IF n = 0
    THEN [raised |-> FALSE, best |-> PyNone, best_score |-> -1000, reason |-> PyNone]
    ELSE LET st == CandidateLoop(inv_date, cands, n - 1)
             sc == ScoreCandidate(inv_date, cands[n])
         IN  IF st.raised THEN st
             ELSE IF sc.raised THEN [st EXCEPT !.raised = TRUE]
             ELSE IF sc.score > st.best_score
                  THEN [raised |-> FALSE, best |-> cands[n],
                        best_score |-> sc.score, reason |-> sc.reason]
                  ELSE [st EXCEPT !.reason = sc.reason]

MatchResult(inv, st) ==
    [invoice_number |-> Get(inv, "invoice_number", ""),
     bank_transaction_id |-> Str(Get(st.best, "_id", PyNone)),
     confidence |-> RoundScore(st.best_score),
     reason |-> st.reason]

\* the body of the invoice loop for one invoice
MatchInvoice(inv, by) ==
    LET inv_total == Round2(Get(inv, "total", 0))
        inv_date == ParseDate(Get(inv, "invoice_date", PyNone))
        cands == Candidates(by, inv_total)
    IN  CandidateLoop(inv_date, cands, Len(cands))

\* InvoiceLoop putting each new result in front of the others
RECURSIVE InvoiceLoopPrepend(_, _, _)
InvoiceLoopPrepend(invoices, by, n) ==
    IF n = 0 THEN [raised |-> FALSE, results |-> <<>>]
    ELSE LET acc == InvoiceLoopPrepend(invoices, by, n - 1)
             st == MatchInvoice(invoices[n], by)
         IN  IF acc.raised THEN acc
             ELSE IF st.raised THEN [acc EXCEPT !.raised = TRUE]
             ELSE IF st.best # PyNone
                  THEN [acc EXCEPT !.results = <<MatchResult(invoices[n], st)>> \o @]
                  ELSE acc

\* InvoiceLoop with an exclusivity pass: a transaction already proposed is not
\* proposed again
RECURSIVE InvoiceLoopExclusive(_, _, _)
InvoiceLoopExclusive(invoices, by, n) ==
    IF n = 0 THEN [raised |-> FALSE, results |-> <<>>]
    ELSE LET acc == InvoiceLoopExclusive(invoices, by, n - 1)
             st == MatchInvoice(invoices[n], by)
         IN  IF acc.raised THEN acc
             ELSE IF st.raised THEN [acc EXCEPT !.raised = TRUE]
             ELSE IF /\ st.best # PyNone
                     /\ \A k \in DOMAIN acc.results :
                           acc.results[k].bank_transaction_id # Str(st.best._id)
                  THEN [acc EXCEPT !.results = Append(@, MatchResult(invoices[n], st))]
                  ELSE acc

\* the invoice loop over the first n invoices: the results so far, or the
\* exception that ended it
RECURSIVE InvoiceLoop(_, _, _)
InvoiceLoop(invoices, by, n) ==
    IF n = 0 THEN [raised |-> FALSE, results |-> <<>>]
    ELSE LET acc == InvoiceLoop(invoices, by, n - 1)
             st == MatchInvoice(invoices[n], by)
         IN  IF acc.raised THEN acc
             ELSE IF st.raised THEN [acc EXCEPT !.raised = TRUE]
             ELSE IF st.best # PyNone
                  THEN [acc EXCEPT !.results = Append(@, MatchResult(invoices[n], st))]
                  ELSE acc

\* the scoring part of the handler on the documents read
Reconcile(invoices, txns) ==
    InvoiceLoop(invoices, GroupByAmount(txns, Len(txns)), Len(invoices))

----------------------------------------------------------------------------
(* match_invoices_to_bank: the whole handler *)

\* PersistLoop in a transaction: a failure leaves the collection as it was
PersistLoopRollback(store, results, n, fail) ==
    IF fail > 2 /\ fail <= 2 + n
    THEN [raised |-> TRUE, store |-> store]
    ELSE [raised |-> FALSE,
          store |-> store \o [k \in 1..n |-> results[k] @@ ("_id" :> Len(store) + k)]]

\* the loop that stores the first n results; database call number 2 + k stores
\* the k-th result and raises when fail = 2 + k
RECURSIVE PersistLoop(_, _, _, _)
PersistLoop(store, results, n, fail) ==
    IF n = 0 THEN [raised |-> FALSE, store |-> store]
    ELSE LET acc == PersistLoop(store, results, n - 1, fail)
         IN  IF acc.raised THEN acc
             ELSE IF fail = 2 + n THEN [acc EXCEPT !.raised = TRUE]
             ELSE [acc EXCEPT !.store = create_document(@, results[n])]

ServerError(endpoint) == [endpoint |-> endpoint, status |-> 500]

Ok(endpoint, body) == [endpoint |-> endpoint, status |-> 200, body |-> body]

\* match_invoices_to_bank answering a failed store with the results stored so far
match_returning_stored_part(invs, txns, store, fail) ==
    IF fail = 1 \/ fail = 2
    THEN [response |-> ServerError("POST /match"), match |-> store]
    ELSE LET r == Reconcile(get_documents(invs, InvoiceLimit),
                            get_documents(txns, TxnLimit))
             p == PersistLoop(store, r.results, Len(r.results), fail)
         IN  IF r.raised
             THEN [response |-> ServerError("POST /match"), match |-> store]
             ELSE IF p.raised
             THEN [response |-> Ok("POST /match", SubSeq(r.results, 1, fail - 3)),
                   match |-> p.store]
             ELSE [response |-> Ok("POST /match", r.results), match |-> p.store]

\* match_invoices_to_bank leaving out the invoices that have a stored Match
match_skipping_matched(invs, txns, store, fail) ==
    IF fail = 1 \/ fail = 2
    THEN [response |-> ServerError("POST /match"), match |-> store]
    ELSE LET open(inv) == \A k \in DOMAIN store :
                             store[k].invoice_number # Get(inv, "invoice_number", "")
             r == Reconcile(SelectSeq(get_documents(invs, InvoiceLimit), open),
                            get_documents(txns, TxnLimit))
             p == PersistLoop(store, r.results, Len(r.results), fail)
         IN  IF r.raised
             THEN [response |-> ServerError("POST /match"), match |-> store]
             ELSE IF p.raised
             THEN [response |-> ServerError("POST /match"), match |-> p.store]
             ELSE [response |-> Ok("POST /match", r.results), match |-> p.store]

\* POST /match on the three collections; `fail` numbers the database call that
\* raises (1: reading invoices, 2: reading transactions, 2 + k: storing the
\* k-th result, 0: none). Yields the response and the match collection.
match_invoices_to_bank(invs, txns, store, fail) ==
    IF fail = 1 \/ fail = 2
    THEN [response |-> ServerError("POST /match"), match |-> store]
    ELSE LET r == Reconcile(get_documents(invs, InvoiceLimit),
                            get_documents(txns, TxnLimit))
             p == PersistLoop(store, r.results, Len(r.results), fail)
         IN  IF r.raised
             THEN [response |-> ServerError("POST /match"), match |-> store]
             ELSE IF p.raised
             THEN [response |-> ServerError("POST /match"), match |-> p.store]
             ELSE [response |-> Ok("POST /match", r.results), match |-> p.store]

\* the number of database calls a /match request makes when none of them raises
DbCalls(invs, txns) ==
    LET r == Reconcile(get_documents(invs, InvoiceLimit),
                       get_documents(txns, TxnLimit))
    IN  IF r.raised THEN 2 ELSE 2 + Len(r.results)

----------------------------------------------------------------------------
(* Requests *)

MatchCall ==
    /\ calls < MaxCalls
    /\ \E fail \in 0..DbCalls(invoice, banktransaction) :
         LET out == match_invoices_to_bank(invoice, banktransaction, match, fail)
         IN  /\ response' = out.response
             /\ match' = out.match
             /\ fault' = fail
    /\ calls' = calls + 1
    /\ UNCHANGED <<invoice, banktransaction>>

\* what a client may post: the Invoice and BankTransaction schemas require the
\* amount and the date fields and validate them
ApiInvoiceDays == {7}

ApiTotals == {1004, 2000}

ApiTxnDays == {0, 15}

ApiAmounts == {996}

InvoiceNumber(n) == "INV-" \o ToString(n)

Invoice(n) ==
    {[invoice_number |-> InvoiceNumber(n), total |-> t, invoice_date |-> IsoStr(d)] :
        t \in ApiTotals, d \in ApiInvoiceDays}

BankTransaction == {[amount |-> a, date |-> IsoStr(d)] : a \in ApiAmounts, d \in ApiTxnDays}

\* POST /invoices
create_invoice ==
    /\ Len(invoice) < MaxInv
    /\ \E inv \in Invoice(Len(invoice) + 1), fail \in 0..1 :
         /\ fault' = fail
         /\ IF fail = 1
            THEN /\ response' = ServerError("POST /invoices")
                 /\ UNCHANGED invoice
            ELSE /\ invoice' = create_document(invoice, inv)
                 /\ response' = Ok("POST /invoices",
                                   [id |-> Str(Len(invoice) + 1), status |-> "created"])
    /\ UNCHANGED <<banktransaction, match, calls>>

\* POST /bank-transactions
create_bank_txn ==
    /\ Len(banktransaction) < MaxTxn
    /\ \E txn \in BankTransaction, fail \in 0..1 :
         /\ fault' = fail
         /\ IF fail = 1
            THEN /\ response' = ServerError("POST /bank-transactions")
                 /\ UNCHANGED banktransaction
            ELSE /\ banktransaction' = create_document(banktransaction, txn)
                 /\ response' = Ok("POST /bank-transactions",
                                   [id |-> Str(Len(banktransaction) + 1), status |-> "created"])
    /\ UNCHANGED <<invoice, match, calls>>

NoResponse == [endpoint |-> "", status |-> 0]

Init ==
    /\ invoice = <<>>
    /\ banktransaction = <<>>
    /\ match = <<>>
    /\ response = NoResponse
    /\ fault = 0
    /\ calls = 0

Next == create_invoice \/ create_bank_txn \/ MatchCall

Spec == Init /\ [][Next]_vars

----------------------------------------------------------------------------
(* One /match request on collections with any content: documents reach the   *)
(* store by other ways than this API, so fields may be absent or ill-typed. *)

StoredInvoiceDates == {IsoStr(7), BadStr, PyInt}

StoredTxnDates == {DateTime(0), IsoStr(15)}

Fields(key, values) == {<<>>} \cup {(key :> v) : v \in values}

StoredInvoices == {[invoice_date |-> d] @@ t : d \in StoredInvoiceDates, t \in Fields("total", {1004})}

StoredTxns == {a @@ d : a \in Fields("amount", {996, 1006}), d \in Fields("date", StoredTxnDates)}

\* the collections holding the documents of f, in order
InvoiceCollection(f) ==
    [i \in DOMAIN f |-> f[i] @@ [_id |-> i, invoice_number |-> InvoiceNumber(i)]]

TxnCollection(f) == [i \in DOMAIN f |-> f[i] @@ [_id |-> i]]

SeqsUpTo(S, n) == UNION {[1..k -> S] : k \in 0..n}

InitEngine ==
    /\ invoice \in {InvoiceCollection(f) : f \in SeqsUpTo(StoredInvoices, MaxInv)}
    /\ banktransaction \in {TxnCollection(f) : f \in SeqsUpTo(StoredTxns, MaxTxn)}
    /\ match = <<>>
    /\ response = NoResponse
    /\ fault = 0
    /\ calls = 0

NextEngine == calls = 0 /\ MatchCall

SpecEngine == InitEngine /\ [][NextEngine]_vars

----------------------------------------------------------------------------
(* Vocabulary of the properties, stated on the documents themselves *)

\* the hundredth nearest to m thousandths (m >= 0, not halfway between two)
NearestCent(m) == CHOOSE c \in (m \div 10)..(m \div 10 + 1) : Abs(10 * c - m) < 5

TotalOf(inv) == IF "total" \in DOMAIN inv THEN inv.total ELSE 0

AmountOf(t) == IF "amount" \in DOMAIN t THEN t.amount ELSE 0

SameAmount(inv, t) == NearestCent(TotalOf(inv)) = NearestCent(AmountOf(t))

\* doc[key] is a date: a datetime, or a string in ISO format
Usable(doc, key) ==
    /\ key \in DOMAIN doc
    /\ \/ doc[key].type = "datetime"
       \/ doc[key].type = "str" /\ doc[key].iso

\* doc[key] is neither a date, nor a string, nor absent
IllTyped(doc, key) ==
    /\ key \in DOMAIN doc
    /\ doc[key].type \notin {"datetime", "str", "NoneType"}

DaysApart(inv, t) == Abs(t.date.day - inv.invoice_date.day)

\* both dates are usable and at most 7 days apart
Near(inv, t) ==
    /\ Usable(inv, "invoice_date")
    /\ Usable(t, "date")
    /\ DaysApart(inv, t) <= 7

\* the last request was POST /match and it returned proposals
Returned == response.endpoint = "POST /match" /\ response.status = 200

Failed == response.endpoint = "POST /match" /\ response.status = 500

\* proposal p pairs invoice[i] with banktransaction[j]
Pairs(p, i, j) ==
    /\ p.invoice_number = invoice[i].invoice_number
    /\ p.bank_transaction_id = ToString(banktransaction[j]._id)

\* the invoices that have a transaction with the same rounded amount, in order
HasCandidate(inv) == \E j \in DOMAIN banktransaction : SameAmount(inv, banktransaction[j])

Matched == SelectSeq(invoice, HasCandidate)

\* scoring reaches .date() on a value that is no date
ScoringRaises ==
    \E i \in DOMAIN invoice, j \in DOMAIN banktransaction :
        /\ SameAmount(invoice[i], banktransaction[j])
        /\ \/ IllTyped(invoice[i], "invoice_date") /\ Usable(banktransaction[j], "date")
           \/ IllTyped(invoice[i], "invoice_date") /\ IllTyped(banktransaction[j], "date")
           \/ Usable(invoice[i], "invoice_date") /\ IllTyped(banktransaction[j], "date")

----------------------------------------------------------------------------
(* C1: every returned proposal pairs an invoice and a transaction whose    *)
(* amounts, rounded to 2 decimals, are equal.                              *)
C1_AmountFilter ==
    Returned =>
        \A k \in DOMAIN response.body :
            \E i \in DOMAIN invoice, j \in DOMAIN banktransaction :
                /\ Pairs(response.body[k], i, j)
                /\ SameAmount(invoice[i], banktransaction[j])

\* a proposal between 1.004 and 0.996, while a transaction of 1.006 is in the store
C1_Witness ==
    /\ Returned
    /\ \E k \in DOMAIN response.body, i \in DOMAIN invoice, j \in DOMAIN banktransaction :
          /\ Pairs(response.body[k], i, j)
          /\ TotalOf(invoice[i]) = 1004
          /\ AmountOf(banktransaction[j]) = 996
    /\ \E j \in DOMAIN banktransaction : AmountOf(banktransaction[j]) = 1006

(* C2: the reason of every returned proposal is the reason of the          *)
(* transaction selected for it: within d days (d <= 7), d days apart       *)
(* (d > 7), or amount only when a date is missing or unparseable.         *)
ReasonOf(inv, t) ==
    IF Usable(inv, "invoice_date") /\ Usable(t, "date")
    THEN IF DaysApart(inv, t) <= 7
         THEN "Amount matches and dates within " \o ToString(DaysApart(inv, t)) \o " days"
         ELSE "Amount matches but dates " \o ToString(DaysApart(inv, t)) \o " days apart"
    ELSE "Amount matches"

C2_ReasonOfSelected ==
    Returned =>
        \A k \in DOMAIN response.body :
            \E i \in DOMAIN invoice, j \in DOMAIN banktransaction :
                /\ Pairs(response.body[k], i, j)
                /\ response.body[k].reason = ReasonOf(invoice[i], banktransaction[j])

C4_OnePerMatchedInvoice ==
    /\ Returned =>
          /\ Len(response.body) = Len(Matched)
          /\ \A k \in DOMAIN response.body :
                response.body[k].invoice_number = Matched[k].invoice_number
    /\ (response.endpoint = "POST /match" /\ fault = 0 /\ ~ScoringRaises) => Returned

\* the first invoice has no candidate, the second has one
C4_Witness ==
    /\ Returned
    /\ Len(invoice) = 2
    /\ ~HasCandidate(invoice[1])
    /\ Len(response.body) = 1
    /\ response.body[1].invoice_number = invoice[2].invoice_number

(* C5: every confidence is 0.6 or 1.0, and it is 1.0 exactly when the      *)
(* invoice date is usable and some same-amount transaction has a usable    *)
(* date at most 7 days from it.                                            *)
C5_Confidence ==
    Returned =>
        \A k \in DOMAIN response.body :
            \E i \in DOMAIN invoice :
                /\ response.body[k].invoice_number = invoice[i].invoice_number
                /\ response.body[k].confidence \in {60, 100}
                /\ response.body[k].confidence = 100 <=>
                      \E c \in DOMAIN banktransaction :
                          /\ SameAmount(invoice[i], banktransaction[c])
                          /\ Near(invoice[i], banktransaction[c])

\* confidence 1.0 owed to the second candidate, exactly 7 days away
C5_Witness ==
    /\ Returned
    /\ Len(banktransaction) = 2
    /\ \E k \in DOMAIN response.body, i \in DOMAIN invoice :
          /\ Pairs(response.body[k], i, 2)
          /\ response.body[k].confidence = 100
          /\ SameAmount(invoice[i], banktransaction[1])
          /\ DaysApart(invoice[i], banktransaction[2]) = 7

(* C9: a transaction proposed for one invoice stays a candidate for the    *)
(* later ones: two invoices with the same rounded total and a single       *)
(* transaction of that amount both get a proposal for that transaction.    *)
C9_NoExclusivity ==
    Returned =>
        \A i1, i2 \in DOMAIN invoice, j \in DOMAIN banktransaction :
            ( /\ i1 < i2
              /\ SameAmount(invoice[i1], banktransaction[j])
              /\ SameAmount(invoice[i2], banktransaction[j])
              /\ \A c \in DOMAIN banktransaction :
                    SameAmount(invoice[i1], banktransaction[c]) => c = j )
            => \E k1, k2 \in DOMAIN response.body :
                  /\ k1 < k2
                  /\ Pairs(response.body[k1], i1, j)
                  /\ Pairs(response.body[k2], i2, j)

C9_Witness ==
    /\ Returned
    /\ Len(invoice) = 2
    /\ Len(banktransaction) = 1
    /\ Len(response.body) = 2
    /\ response.body[1].bank_transaction_id = response.body[2].bank_transaction_id

----------------------------------------------------------------------------
\* the fields of a stored Match record m are those of proposal p
StoredAs(m, p) ==
    /\ m.invoice_number = p.invoice_number
    /\ m.bank_transaction_id = p.bank_transaction_id
    /\ m.confidence = p.confidence
    /\ m.reason = p.reason

\* this step serves a POST /match request
MatchStep == calls' = calls + 1

(* C6: the proposals a /match request returns do not depend on             *)
(* persistence: when storing a proposal fails the caller still gets the    *)
(* proposals computed, one per invoice with a candidate.                   *)
C6_PersistenceDoesNotAffectResponse ==
    (response.endpoint = "POST /match" /\ fault > 2) =>
        /\ Returned
        /\ Len(response.body) = Len(Matched)

(* C7: a /match request is all-or-nothing: when reading, scoring or        *)
(* storing fails the caller gets one error and no proposal, otherwise all  *)
(* the proposals; never a part of them.                                    *)
C7_AllOrNothing ==
    response.endpoint = "POST /match" =>
        /\ (fault # 0 \/ ScoringRaises) =>
              /\ response.status = 500
              /\ "body" \notin DOMAIN response
        /\ ~(fault # 0 \/ ScoringRaises) =>
              /\ response.status = 200
              /\ Len(response.body) = Len(Matched)

\* storing the second of two proposals failed
C7_Witness ==
    /\ Failed
    /\ fault = 4
    /\ Len(Matched) = 2
    /\ Len(match) = 1

(* C8: two /match requests in a row on unchanged collections return the    *)
(* same proposals, although the first has stored Match records.            *)
C8_Deterministic ==
    [][(MatchStep /\ Returned /\ Returned') => response'.body = response.body]_vars

\* the second of two successful runs, each of which stored two records
C8_Witness ==
    /\ calls = 2
    /\ Returned
    /\ Len(response.body) = 2
    /\ Len(match) = 4
    /\ \A k \in 1..2 : StoredAs(match[k], response.body[k])

(* C10: proposals are stored one at a time, in order, after the scoring:   *)
(* when storing the k-th fails the k-1 records before it stay stored, the  *)
(* others are never stored and the caller gets the error; without failure  *)
(* all are stored; invoices and transactions are never changed.            *)
C10_PersistenceNotAtomic ==
    [][MatchStep =>
        /\ invoice' = invoice
        /\ banktransaction' = banktransaction
        /\ SubSeq(match', 1, Len(match)) = match
        /\ fault' > 2 =>
              /\ Failed'
              /\ Len(match') = Len(match) + (fault' - 3)
              /\ \A k \in 1..(fault' - 3) :
                    match'[Len(match) + k].invoice_number = Matched[k].invoice_number
        /\ Returned' =>
              /\ Len(match') = Len(match) + Len(response'.body)
              /\ \A k \in DOMAIN response'.body :
                    StoredAs(match'[Len(match) + k], response'.body[k])
        /\ (Failed' /\ fault' <= 2) => match' = match
      ]_vars

\* storing the second of two proposals failed: the first is in the store
C10_Witness ==
    /\ Failed
    /\ fault = 4
    /\ Len(match) = 1
    /\ match[1].invoice_number = "INV-1"
    /\ Len(invoice) = 2

====
